---- MODULE Spec2Model ----
(***************************************************************************)
(* Model of gravity-genesis: seeding of the system contracts, construction *)
(* and sequential execution of the genesis transactions, the merge of the  *)
(* seeded accounts with the execution diff, the three output artifacts and *)
(* the read-only verification that follows.                                *)
(*                                                                         *)
(* The EVM (revm) and the ABI codec are external: a transaction's outcome  *)
(* and the account changes it returns are chosen nondeterministically from *)
(* small sets; what this repository does with them is modelled as coded.   *)
(***************************************************************************)
EXTENDS Integers, Sequences, FiniteSets, TLC

(***************************************************************************)
(* Bounds of the model.                                                    *)
(***************************************************************************)
MaxValidators == 2
MaxProviders == 2

(***************************************************************************)
(* utils.rs: the fixed addresses (their 20-byte value as a number).        *)
(***************************************************************************)
DEAD_ADDRESS == 57005
GENESIS_ADDR == 8200
SYSTEM_CONTRACT_ADDRESS == 8447
EPOCH_MANAGER_ADDR == 8208
STAKE_CONFIG_ADDR == 8209
DELEGATION_ADDR == 8210
VALIDATOR_MANAGER_ADDR == 8211
VALIDATOR_MANAGER_UTILS_ADDR == 8212
VALIDATOR_PERFORMANCE_TRACKER_ADDR == 8213
BLOCK_ADDR == 8214
TIMESTAMP_ADDR == 8215
JWK_MANAGER_ADDR == 8216
KEYLESS_ACCOUNT_ADDR == 8217
GOV_HUB_ADDR == 8219
STAKE_CREDIT_ADDR == 8220
GOV_TOKEN_ADDR == 8221
GOVERNOR_ADDR == 8222
TIMELOCK_ADDR == 8223
RANDOMNESS_CONFIG_ADDR == 8224
DKG_ADDR == 8225
RECONFIGURATION_WITH_DKG_ADDR == 8226
HASH_ORACLE_ADDR == 8227
SYSTEM_CALLER == 8192

CONTRACTS ==
    << <<"System", SYSTEM_CONTRACT_ADDRESS>>,
       <<"StakeConfig", STAKE_CONFIG_ADDR>>,
       <<"ValidatorManagerUtils", VALIDATOR_MANAGER_UTILS_ADDR>>,
       <<"ValidatorManager", VALIDATOR_MANAGER_ADDR>>,
       <<"ValidatorPerformanceTracker", VALIDATOR_PERFORMANCE_TRACKER_ADDR>>,
       <<"EpochManager", EPOCH_MANAGER_ADDR>>,
       <<"GovToken", GOV_TOKEN_ADDR>>,
       <<"Timelock", TIMELOCK_ADDR>>,
       <<"GravityGovernor", GOVERNOR_ADDR>>,
       <<"JWKManager", JWK_MANAGER_ADDR>>,
       <<"KeylessAccount", KEYLESS_ACCOUNT_ADDR>>,
       <<"Block", BLOCK_ADDR>>,
       <<"Timestamp", TIMESTAMP_ADDR>>,
       <<"Genesis", GENESIS_ADDR>>,
       <<"StakeCredit", STAKE_CREDIT_ADDR>>,
       <<"Delegation", DELEGATION_ADDR>>,
       <<"GovHub", GOV_HUB_ADDR>>,
       <<"RandomnessConfig", RANDOMNESS_CONFIG_ADDR>>,
       <<"DKG", DKG_ADDR>>,
       <<"ReconfigurationWithDKG", RECONFIGURATION_WITH_DKG_ADDR>>,
       <<"HashOracle", HASH_ORACLE_ADDR>> >>

ContractNames == {CONTRACTS[i][1] : i \in 1..Len(CONTRACTS)}
ContractAddrs == {CONTRACTS[i][2] : i \in 1..Len(CONTRACTS)}
NameOf(a) == CONTRACTS[CHOOSE i \in 1..Len(CONTRACTS) : CONTRACTS[i][2] = a][1]
AddrOf(n) == CONTRACTS[CHOOSE i \in 1..Len(CONTRACTS) : CONTRACTS[i][1] = n][2]
ContractIndex(n) == CHOOSE i \in 1..Len(CONTRACTS) : CONTRACTS[i][1] = n

(***************************************************************************)
(* U256 amounts.  TLC's integers are 32 bits wide, so a number is kept as  *)
(* its bytes, least significant first and without high-order zeros (zero   *)
(* is the empty sequence); two numbers are equal iff their bytes are.  A   *)
(* U256 has at most U256Bytes bytes and its arithmetic wraps at 2^256.     *)
(***************************************************************************)
U256Bytes == 32
RECURSIVE Trim(_)
Trim(s) ==
    IF s = << >> THEN s
    ELSE IF s[Len(s)] = 0 THEN Trim(SubSeq(s, 1, Len(s) - 1))
    ELSE s
RECURSIVE NatBytes(_)
NatBytes(n) == IF n = 0 THEN << >> ELSE <<n % 256>> \o NatBytes(n \div 256)
\* s * k + c for small k and c, without bound.
RECURSIVE MulSmallAdd(_, _, _)
MulSmallAdd(s, k, c) ==
    IF s = << >> THEN NatBytes(c)
    ELSE <<(s[1] * k + c) % 256>> \o MulSmallAdd(Tail(s), k, (s[1] * k + c) \div 256)
\* The products of the bytes of a and b that fall on byte k of a * b, from
\* byte i of a on.
RECURSIVE ColumnSum(_, _, _, _)
ColumnSum(a, b, k, i) ==
    IF i > Len(a) \/ i > k THEN 0
    ELSE (IF k + 1 - i <= Len(b) THEN a[i] * b[k + 1 - i] ELSE 0)
         + ColumnSum(a, b, k, i + 1)
\* Bytes k..n of a * b, then the carry out of byte n.
RECURSIVE Columns(_, _, _, _, _)
Columns(a, b, k, c, n) ==
    IF k > n THEN NatBytes(c)
    ELSE LET x == ColumnSum(a, b, k, 1) + c
         IN  <<x % 256>> \o Columns(a, b, k + 1, x \div 256, n)
Shorter(a, b) == IF Len(a) <= Len(b) THEN a ELSE b
Longer(a, b) == IF Len(a) <= Len(b) THEN b ELSE a
\* a * b without bound.
BigMul(a, b) ==
    IF a = << >> \/ b = << >> THEN << >>
    ELSE Trim(Columns(Shorter(a, b), Longer(a, b), 1, 0, Len(a) + Len(b) - 1))
\* The low 256 bits.
Wrap(s) == Trim(SubSeq(s, 1, IF Len(s) < U256Bytes THEN Len(s) ELSE U256Bytes))

U256From(n) == NatBytes(n)
U256Zero == U256From(0)
\* ruint's Mul and pow: wrapping.
U256Mul(a, b) ==
    IF a = << >> \/ b = << >> THEN << >>
    ELSE Wrap(Columns(Shorter(a, b), Longer(a, b), 1, 0,
                      IF Len(a) + Len(b) - 1 < U256Bytes THEN Len(a) + Len(b) - 1
                      ELSE U256Bytes))
RECURSIVE U256Pow(_, _)
U256Pow(a, n) ==
    IF n = 0 THEN U256From(1)
    ELSE IF n % 2 = 0 THEN U256Mul(U256Pow(a, n \div 2), U256Pow(a, n \div 2))
    ELSE U256Mul(a, U256Pow(a, n - 1))
RECURSIVE U256Gt(_, _)
U256Gt(a, b) ==
    IF Len(a) # Len(b) THEN Len(a) > Len(b)
    ELSE IF a = << >> THEN FALSE
    ELSE IF a[Len(a)] # b[Len(b)] THEN a[Len(a)] > b[Len(b)]
    ELSE U256Gt(Trim(SubSeq(a, 1, Len(a) - 1)), Trim(SubSeq(b, 1, Len(b) - 1)))

(***************************************************************************)
(* Text and bytes.  A hex text is a record: whether it starts with "0x",   *)
(* and its characters, 0..15 for a hex digit and NotHex for any other      *)
(* character.  hex::decode strips the prefix, fails on an odd length or a  *)
(* character that is no digit, and packs two digits into each byte.        *)
(***************************************************************************)
NotHex == 16
NotDigit == 10
HexText(prefix, digits) == [prefix |-> prefix, digits |-> digits]
HexErr == [ok |-> FALSE, bytes |-> << >>]
HexDecode(s) ==
    IF Len(s.digits) % 2 = 1 \/ \E i \in 1..Len(s.digits) : s.digits[i] = NotHex
    THEN HexErr
    ELSE [ok |-> TRUE,
          bytes |-> [i \in 1..(Len(s.digits) \div 2) |->
                        16 * s.digits[2 * i - 1] + s.digits[2 * i]]]
HexEncode(bytes) ==
    HexText(FALSE, [i \in 1..(2 * Len(bytes)) |->
                      IF i % 2 = 1 THEN bytes[(i + 1) \div 2] \div 16
                      ELSE bytes[i \div 2] % 16])

(***************************************************************************)
(* Input files.  A path names no readable file (NoFile) or a file with a   *)
(* content.                                                                *)
(***************************************************************************)
NoFile == [exists |-> FALSE]
FileOf(content) == [exists |-> TRUE, content |-> content]
None == [some |-> FALSE]
Some(v) == [some |-> TRUE, val |-> v]

Rep(b, n) == [i \in 1..n |-> b]

\* Bytecode blobs (<name>.hex): runtime code, constructor-looking code (more
\* than 100 bytes, first byte 0x60), an empty text and a text that is no hex.
RuntimeBlob(i) == HexText(FALSE, <<3, 6, i \div 16, i % 16>>)
ConstructorBlob == HexText(FALSE, [k \in 1..202 |-> IF k % 2 = 1 THEN 6 ELSE 0])
EmptyBlob == HexText(FALSE, << >>)
BadHexBlob == HexText(FALSE, <<3, 6, 5, 11, NotHex>>)

GoodBlobDir == [n \in ContractNames |-> FileOf(RuntimeBlob(ContractIndex(n)))]
BlobFaultAt == {"Genesis", "HashOracle"}
BlobFaults == {NoFile, FileOf(ConstructorBlob), FileOf(EmptyBlob), FileOf(BadHexBlob)}
BlobDirs ==
    {GoodBlobDir} \cup
    {[GoodBlobDir EXCEPT ![n] = f] : n \in BlobFaultAt, f \in BlobFaults}

\* Genesis configuration: one text per validator and field.  A plain text is
\* the sequence of its character codes; a decimal text the sequence of its
\* digits, NotDigit for any other character.
AddrText(b) == HexText(TRUE, HexEncode(Rep(b, 20)).digits)
WordText(h, l) == HexText(FALSE, HexEncode(Rep(h, 12) \o Rep(l, 20)).digits)
ValidatorInput(addr, aptos, key, power, vna, fna) ==
    [validatorAddress |-> addr, aptosAddress |-> aptos, consensusPublicKey |-> key,
     votingPower |-> power, validatorNetworkAddress |-> vna,
     fullnodeNetworkAddress |-> fna]
ValidatorInputs ==
    { ValidatorInput(AddrText(1), WordText(7, 1), <<97, 98>>, <<1, 0, 0>>, <<47, 105>>, << >>),
      ValidatorInput(AddrText(2), WordText(0, 2), <<99>>, <<5, 0>>, << >>, <<47>>),
      ValidatorInput(AddrText(1), WordText(0, 2), <<97, 98>>, <<1, 0, 0>>, <<47, 105>>, << >>),
      ValidatorInput(AddrText(2), AddrText(2), <<99>>, <<5, 0>>, << >>, <<47>>) }
ConfigOf(vs) ==
    [validator_addresses |-> [i \in 1..Len(vs) |-> vs[i].validatorAddress],
     consensus_public_keys |-> [i \in 1..Len(vs) |-> vs[i].consensusPublicKey],
     voting_powers |-> [i \in 1..Len(vs) |-> vs[i].votingPower],
     validator_network_addresses |->
         [i \in 1..Len(vs) |-> vs[i].validatorNetworkAddress],
     fullnode_network_addresses |->
         [i \in 1..Len(vs) |-> vs[i].fullnodeNetworkAddress],
     aptos_addresses |-> [i \in 1..Len(vs) |-> vs[i].aptosAddress]]
SeqsUpTo(S, n) == UNION {[1..k -> S] : k \in 0..n}
\* A voting power that is a U256 and whose product with 10^18 is not:
\* 2 * 10^59.
HugePower == <<2>> \o Rep(0, 59)
DefaultValidator ==
    ValidatorInput(AddrText(1), WordText(7, 1), <<97, 98>>, <<1, 0, 0>>, <<47, 105>>, << >>)
DefaultConfig == ConfigOf(<<DefaultValidator>>)
Configs ==
    {ConfigOf(vs) : vs \in SeqsUpTo(ValidatorInputs, MaxValidators) \ {<< >>}}
    \cup {[ConfigOf(<<DefaultValidator, DefaultValidator>>) EXCEPT
               !.aptos_addresses = <<WordText(7, 1)>>]}
    \cup {ConfigOf(<<[DefaultValidator EXCEPT !.votingPower = p]>>) :
             p \in {HugePower, <<1, NotDigit>>}}
    \cup {ConfigOf(<<DefaultValidator,
                     ValidatorInput(AddrText(2), WordText(0, 2), <<99>>, HugePower,
                                    << >>, <<47>>)>>)}

\* JWK document: issuer -> version and a list of {variant, hex data}.
\* A JSON file's content either parses to a document or does not.
JsonOf(doc) == [parses |-> TRUE, doc |-> doc]
Garbage == [parses |-> FALSE, doc |-> << >>]
JwkOf(variant, data) == [variant |-> variant, data |-> data]
JwksDoc1 ==
    << [issuer |-> "iss1", version |-> 3,
        jwks |-> <<JwkOf(0, HexText(TRUE, <<0, 1, 0, 2>>)),
                   JwkOf(1, HexText(FALSE, <<0, 3>>))>>] >>
JwksDoc2 ==
    << [issuer |-> "iss1", version |-> 3,
        jwks |-> <<JwkOf(0, HexText(TRUE, <<0, 1, 0, 2>>))>>],
       [issuer |-> "iss2", version |-> 1, jwks |-> << >>] >>
JwksDocBadHex ==
    << [issuer |-> "iss1", version |-> 3,
        jwks |-> <<JwkOf(0, HexText(TRUE, <<0, 1, 0, 2>>)),
                   JwkOf(1, HexText(FALSE, <<0, NotHex>>))>>] >>
JwksFiles ==
    {None, Some(NoFile), Some(FileOf(Garbage)), Some(FileOf(JsonOf(JwksDocBadHex))),
     Some(FileOf(JsonOf(JwksDoc1))), Some(FileOf(JsonOf(JwksDoc2)))}

\* OIDC provider document: a list of {name, configUrl, active}.
ProviderOf(k) ==
    [name |-> k, configUrl |-> 100 + k, active |-> (k % 2 = 1)]
\* The documents: every list of different providers, and one list that names
\* a provider twice.
ProviderDocs ==
    {d \in SeqsUpTo({ProviderOf(k) : k \in 1..MaxProviders}, MaxProviders) :
        \A i, j \in 1..Len(d) : i # j => d[i] # d[j]}
    \cup {<<ProviderOf(1), ProviderOf(1)>>}
OidcFiles ==
    {None, Some(NoFile), Some(FileOf(Garbage))} \cup
    {Some(FileOf(JsonOf(d))) : d \in ProviderDocs}

(***************************************************************************)
(* genesis.rs: parse_genesis_config.  The result is the parsed parameters  *)
(* or a panic.                                                             *)
(***************************************************************************)
Panic(why) == [panic |-> TRUE, why |-> why]
Parsed(v) == [panic |-> FALSE, val |-> v]

\* str::parse::<Address>: 40 hex digits, with or without "0x".
ParseAddress(s) ==
    IF Len(s.digits) = 40 /\ HexDecode(s).ok THEN Some(HexDecode(s).bytes) ELSE None

\* Address::from_word: the low-order 20 bytes of the 32-byte word.
from_word(w) == [i \in 1..20 |-> w[i + 12]]

bytes_to_fixed32(bytes) == IF Len(bytes) # 32 THEN None ELSE Some(bytes)

AddressMismatchAtFirstOnly(validator_addresses, address_from_aptos_address) ==
    {i \in 1..Len(validator_addresses) :
        /\ i = 1
        /\ \/ i > Len(address_from_aptos_address)
           \/ validator_addresses[i] # address_from_aptos_address[i]}
AddressMismatchAt(validator_addresses, address_from_aptos_address) ==
    {i \in 1..Len(validator_addresses) :
        \/ i > Len(address_from_aptos_address)
        \/ validator_addresses[i] # address_from_aptos_address[i]}

\* str::parse::<U256> of a decimal text.
\* The value of a text of at most 6 digits.
RECURSIVE SmallDecimal(_)
SmallDecimal(digits) ==
    IF digits = << >> THEN 0
    ELSE 10 * SmallDecimal(SubSeq(digits, 1, Len(digits) - 1)) + digits[Len(digits)]
\* The value of a decimal text, without bound: 6 digits at a time.
RECURSIVE DecimalValue(_)
DecimalValue(digits) ==
    IF Len(digits) <= 6 THEN NatBytes(SmallDecimal(digits))
    ELSE MulSmallAdd(DecimalValue(SubSeq(digits, 1, Len(digits) - 6)), 1000000,
                     SmallDecimal(SubSeq(digits, Len(digits) - 5, Len(digits))))
\* An empty text, a character that is no digit or a value of 2^256 or more
\* is an error.
ParseU256(s) ==
    IF s = << >> \/ \E i \in 1..Len(s) : s[i] = NotDigit THEN None
    ELSE IF Len(DecimalValue(s)) > U256Bytes THEN None
    ELSE Some(DecimalValue(s))

\* str::as_bytes
as_bytes(s) == s
\* bcs::to_bytes of a string: its length (ULEB128, one byte below 128), then
\* its bytes.
bcs_to_bytes(s) == <<Len(s)>> \o as_bytes(s)
NetworkAddressBytes(addr) == IF addr = << >> THEN << >> ELSE bcs_to_bytes(addr)

VotingPowerWei(power_ether) == U256Mul(power_ether, U256Pow(U256From(10), 18))

parse_genesis_config(config) ==
    LET va == [i \in 1..Len(config.validator_addresses) |->
                  ParseAddress(config.validator_addresses[i])]
        vp == [i \in 1..Len(config.voting_powers) |->
                  ParseU256(config.voting_powers[i])]
        ap == [i \in 1..Len(config.aptos_addresses) |->
                  HexDecode(config.aptos_addresses[i])]
    IN  IF \E i \in 1..Len(va) : ~va[i].some
        THEN Panic("Invalid validator address")
        ELSE IF \E i \in 1..Len(vp) : ~vp[i].some
        THEN Panic("Invalid voting power")
        ELSE IF \E i \in 1..Len(ap) : ~ap[i].ok \/ ~bytes_to_fixed32(ap[i].bytes).some
        THEN Panic("aptos address is not 32 bytes of hex")
        ELSE LET validator_addresses == [i \in 1..Len(va) |-> va[i].val]
                 aptos_addresses == [i \in 1..Len(ap) |-> ap[i].bytes]
                 address_from_aptos_address ==
                     [i \in 1..Len(ap) |-> from_word(aptos_addresses[i])]
             IN  IF AddressMismatchAt(validator_addresses,
                                      address_from_aptos_address) # {}
                 THEN Panic("Validator address mismatch")
                 ELSE Parsed(
                     [validator_addresses |-> validator_addresses,
                      consensus_public_keys |->
                          [i \in 1..Len(config.consensus_public_keys) |->
                              as_bytes(config.consensus_public_keys[i])],
                      voting_powers |->
                          [i \in 1..Len(vp) |-> VotingPowerWei(vp[i].val)],
                      validator_network_addresses |->
                          [i \in 1..Len(config.validator_network_addresses) |->
                              NetworkAddressBytes(config.validator_network_addresses[i])],
                      fullnode_network_addresses |->
                          [i \in 1..Len(config.fullnode_network_addresses) |->
                              NetworkAddressBytes(config.fullnode_network_addresses[i])],
                      aptos_addresses |-> aptos_addresses])

(***************************************************************************)
(* Transactions (TxEnv).  The ABI-encoded call data is kept as the call:   *)
(* the function and its arguments.                                         *)
(***************************************************************************)
\* As new_system_call_txn, but the called contract is the sender.
new_system_call_txn_from_contract(contract, input) ==
    [caller |-> contract,
     gas_price |-> U256Zero,
     transact_to |-> [kind |-> "Call", to |-> contract],
     value |-> U256Zero,
     data |-> input]
new_system_call_txn(contract, input) ==
    [caller |-> SYSTEM_CALLER,
     gas_price |-> U256Zero,
     transact_to |-> [kind |-> "Call", to |-> contract],
     value |-> U256Zero,
     data |-> input]

call_genesis_initialize(genesis_address, param) ==
    new_system_call_txn(genesis_address,
        [fn |-> "initialize",
         validatorAddresses |-> param.validator_addresses,
         consensusPublicKeys |-> param.consensus_public_keys,
         votingPowers |-> param.voting_powers,
         validatorNetworkAddresses |-> param.validator_network_addresses,
         fullnodeNetworkAddresses |-> param.fullnode_network_addresses,
         aptosAddresses |-> param.aptos_addresses])

call_get_validator_set ==
    new_system_call_txn(VALIDATOR_MANAGER_ADDR, [fn |-> "getValidatorSet"])
call_get_current_epoch_info ==
    new_system_call_txn(EPOCH_MANAGER_ADDR, [fn |-> "getCurrentEpochInfo"])

\* jwks.rs
call_upsert_observed_jwks(provider_jwks_array, cross_chain_params_array) ==
    new_system_call_txn(JWK_MANAGER_ADDR,
        [fn |-> "upsertObservedJWKs",
         providerJWKsArray |-> provider_jwks_array,
         crossChainParamsArray |-> cross_chain_params_array])
call_get_observed_jwks ==
    new_system_call_txn(JWK_MANAGER_ADDR, [fn |-> "getObservedJWKs"])
call_upsert_oidc_provider(name, config_url) ==
    new_system_call_txn(JWK_MANAGER_ADDR,
        [fn |-> "upsertOIDCProvider", name |-> name, configUrl |-> config_url])
call_get_active_providers ==
    new_system_call_txn(JWK_MANAGER_ADDR, [fn |-> "getActiveProviders"])

Err(msg) == [ok |-> FALSE, err |-> msg]
Ok(v) == [ok |-> TRUE, val |-> v]

\* As read_jwks_from_file, but an entry whose data is no hex is left out.
read_jwks_from_file_skipping(file) ==
    IF ~file.exists THEN Err("Failed to read JWKS file")
    ELSE IF ~file.content.parses THEN Err("Failed to parse JWKS file")
    ELSE LET doc == file.content.doc
             good(i) == SelectSeq(doc[i].jwks, LAMBDA jwk : HexDecode(jwk.data).ok)
         IN  Ok([i \in 1..Len(doc) |->
                    [issuer |-> doc[i].issuer,
                     version |-> doc[i].version,
                     jwks |-> [j \in 1..Len(good(i)) |->
                                 [variant |-> good(i)[j].variant,
                                  data |-> HexDecode(good(i)[j].data).bytes]]]])
read_jwks_from_file(file) ==
    IF ~file.exists THEN Err("Failed to read JWKS file")
    ELSE IF ~file.content.parses THEN Err("Failed to parse JWKS file")
    ELSE LET doc == file.content.doc
         IN  IF \E i \in 1..Len(doc) : \E j \in 1..Len(doc[i].jwks) :
                    ~HexDecode(doc[i].jwks[j].data).ok
             THEN Err("Failed to decode hex data")
             ELSE Ok([i \in 1..Len(doc) |->
                        [issuer |-> doc[i].issuer,
                         version |-> doc[i].version,
                         jwks |-> [j \in 1..Len(doc[i].jwks) |->
                                     [variant |-> doc[i].jwks[j].variant,
                                      data |-> HexDecode(doc[i].jwks[j].data).bytes]]]])

read_oidc_providers_from_file(file) ==
    IF ~file.exists THEN Err("Failed to read OIDC provider file")
    ELSE IF ~file.content.parses THEN Err("Failed to parse OIDC provider file")
    ELSE Ok([i \in 1..Len(file.content.doc) |->
               [name |-> file.content.doc[i].name,
                configUrl |-> file.content.doc[i].configUrl,
                active |-> file.content.doc[i].active,
                onchain_block_number |-> 0]])

upsert_oidc_providers_reversed(file) ==
    LET r == read_oidc_providers_from_file(file)
    IN  IF ~r.ok THEN r
        ELSE Ok([i \in 1..Len(r.val) |->
                   call_upsert_oidc_provider(r.val[Len(r.val) + 1 - i].name,
                                             r.val[Len(r.val) + 1 - i].configUrl)])
upsert_oidc_providers(file) ==
    LET r == read_oidc_providers_from_file(file)
    IN  IF ~r.ok THEN r
        ELSE Ok([i \in 1..Len(r.val) |->
                   call_upsert_oidc_provider(r.val[i].name, r.val[i].configUrl)])

upsert_observed_jwks(file) ==
    LET r == read_jwks_from_file(file)
    IN  IF ~r.ok THEN r ELSE Ok(call_upsert_observed_jwks(r.val, << >>))

\* execute.rs: GenesisTransactionBuilder::with_jwks; the list, or the panic of
\* expect().
with_jwks_required(transactions, file) ==
    IF file.some /\ upsert_observed_jwks(file.val).ok
    THEN Parsed(Append(transactions, upsert_observed_jwks(file.val).val))
    ELSE Panic("Failed to upsert observed JWKs")
with_jwks(transactions, file) ==
    IF file.some
    THEN LET jwks_tx == upsert_observed_jwks(file.val)
         IN  IF ~jwks_tx.ok THEN Panic("Failed to upsert observed JWKs")
             ELSE Parsed(Append(transactions, jwks_tx.val))
    ELSE Parsed(transactions)

\* execute.rs: GenesisTransactionBuilder::with_oidc_providers
with_oidc_providers(transactions, file) ==
    IF file.some
    THEN LET oidc_txs == upsert_oidc_providers(file.val)
         IN  IF ~oidc_txs.ok THEN Panic("Failed to upsert OIDC providers")
             ELSE Parsed(transactions \o oidc_txs.val)
    ELSE Parsed(transactions)

(***************************************************************************)
(* Accounts.  AccountInfo {balance, nonce, code}; a storage is a function  *)
(* from the slots it holds to their values.                                *)
(***************************************************************************)
AccountInfo(balance, nonce, code) == [balance |-> balance, nonce |-> nonce, code |-> code]
AccountInfoDefault == AccountInfo(U256Zero, 0, None)
SYSTEM_ACCOUNT_INFO == AccountInfo(U256Pow(U256From(10), 18), 1, None)
EmptyMap == [x \in {} |-> 0]

\* HashMap::extend / insert: the entries of m2 replace those of m1.
Extend(m1, m2) ==
    [k \in DOMAIN m1 \cup DOMAIN m2 |-> IF k \in DOMAIN m2 THEN m2[k] ELSE m1[k]]
RemoveNothing(m, k) == m
Remove(m, k) == [x \in DOMAIN m \ {k} |-> m[x]]

(***************************************************************************)
(* execute.rs: the Bytecode Seeder.                                        *)
(***************************************************************************)
read_hex_from_file_lenient(file) ==
    Parsed(IF file.exists THEN file.content ELSE EmptyBlob)
read_hex_from_file(file) ==
    IF file.exists THEN Parsed(file.content) ELSE Panic("Failed to open")

\* As extract_runtime_bytecode, but what looks like constructor bytecode loses
\* its first 100 bytes.
extract_runtime_bytecode_stripping(constructor_bytecode) ==
    LET d == HexDecode(constructor_bytecode)
        bytes == IF d.ok THEN d.bytes ELSE << >>
    IN  IF Len(bytes) > 100 /\ (bytes[1] = 96 \/ bytes[1] = 97)
        THEN SubSeq(bytes, 101, Len(bytes))
        ELSE bytes
extract_runtime_bytecode(constructor_bytecode) ==
    LET d == HexDecode(constructor_bytecode)
        bytes == IF d.ok THEN d.bytes ELSE << >>
    IN  IF Len(bytes) > 100 /\ (bytes[1] = 96 \/ bytes[1] = 97)
        THEN bytes
        ELSE bytes

SeedBalance(contract_name) ==
    IF contract_name = "JwkManager" \/ contract_name = "ValidatorManager"
       \/ contract_name = "Genesis"
    THEN U256Mul(U256From(1000000), U256Pow(U256From(10), 18))
    ELSE U256Zero

deploy_bsc_style(byte_code_dir) ==
    IF \E i \in 1..Len(CONTRACTS) : read_hex_from_file(byte_code_dir[CONTRACTS[i][1]]).panic
    THEN Panic("Failed to open")
    ELSE Parsed(
        [a \in {SYSTEM_CALLER} \cup ContractAddrs |->
            IF a = SYSTEM_CALLER THEN SYSTEM_ACCOUNT_INFO
            ELSE LET contract_name == NameOf(a)
                     bytecode_hex == read_hex_from_file(byte_code_dir[contract_name]).val
                 IN  AccountInfo(SeedBalance(contract_name), 0,
                                 Some(extract_runtime_bytecode(bytecode_hex)))])

(***************************************************************************)
(* utils.rs: execute_revm_sequential.  The state the EVM runs on is the    *)
(* database overlaid with the accounts changed so far (acc): per address   *)
(* an optional info and the touched slots, each {original, present}.       *)
(***************************************************************************)
ViewInfo(database, acc, a) ==
    IF a \in DOMAIN acc THEN acc[a].info
    ELSE IF a \in DOMAIN database THEN Some(database[a])
    ELSE None
ViewSlot(acc, a, k) ==
    IF a \in DOMAIN acc /\ k \in DOMAIN acc[a].storage
    THEN acc[a].storage[k].present_value
    ELSE 0
\* StateBuilder: with_bundle_prestate(pre_bundle) or with_bundle_update().
InitialAcc(pre_bundle) == IF pre_bundle.some THEN pre_bundle.val ELSE EmptyMap

\* StorageSlot::present_value
original_value_of(slot) == slot.original_value
present_value(slot) == slot.present_value

\* DatabaseCommit::commit of the state one transaction returned.
CommitNothing(acc, state) == acc
Commit(acc, state) ==
    [a \in DOMAIN acc \cup DOMAIN state |->
        IF a \notin DOMAIN state THEN acc[a]
        ELSE [info |-> state[a].info,
              storage |->
                [k \in (IF a \in DOMAIN acc THEN DOMAIN acc[a].storage ELSE {})
                        \cup DOMAIN state[a].writes |->
                    IF k \in DOMAIN state[a].writes
                    THEN [original_value |->
                              IF a \in DOMAIN acc /\ k \in DOMAIN acc[a].storage
                              THEN acc[a].storage[k].original_value ELSE 0,
                          present_value |-> state[a].writes[k]]
                    ELSE acc[a].storage[k]]]]

(***************************************************************************)
(* The EVM, external: what transact() may return for a transaction run on  *)
(* a view.  An error, or a result with the changed accounts.  Every run    *)
(* bumps the caller's nonce; a successful call touches its target and may  *)
(* write its storage.  initialize, which calls into the other system       *)
(* contracts, may also return the target's info without its code, touch    *)
(* another contract, create an account, or leave entries without account   *)
(* info (a destroyed or empty account).                                    *)
(***************************************************************************)
InfoOf(database, acc, a) ==
    IF ViewInfo(database, acc, a).some THEN ViewInfo(database, acc, a).val
    ELSE AccountInfoDefault
Touched(database, acc, a, carry_code, writes) ==
    [info |-> Some(IF carry_code THEN InfoOf(database, acc, a)
                   ELSE [InfoOf(database, acc, a) EXCEPT !.code = None]),
     writes |-> writes]
CallerState(database, acc, tx) ==
    (tx.caller :> [info |-> Some([InfoOf(database, acc, tx.caller) EXCEPT
                                      !.nonce = @ + 1]),
                   writes |-> EmptyMap])
NewAccountCode == <<254>>
\* The functions declared `view`: they change no storage.
ViewFunctions ==
    {"getValidatorSet", "getCurrentEpochInfo", "getObservedJWKs", "getActiveProviders"}
SuccessStates(database, acc, tx) ==
    LET to == tx.transact_to.to
        next(a) == ViewSlot(acc, a, 1) + 1
        caller == CallerState(database, acc, tx)
        plain == Extend(caller, to :> Touched(database, acc, to, TRUE, EmptyMap))
        write == Extend(caller, to :> Touched(database, acc, to, TRUE, 1 :> next(to)))
    IN  IF tx.data.fn \in ViewFunctions THEN {plain}
        ELSE IF tx.data.fn # "initialize" THEN {plain, write}
        ELSE
        { plain, write,
          Extend(caller, to :> Touched(database, acc, to, FALSE, 1 :> next(to))),
          Extend(Extend(caller,
                   (VALIDATOR_MANAGER_ADDR :>
                        Touched(database, acc, VALIDATOR_MANAGER_ADDR, TRUE,
                                1 :> next(VALIDATOR_MANAGER_ADDR)))
                   @@ (DEAD_ADDRESS :>
                        [info |-> Some(AccountInfo(U256Zero, 1, Some(NewAccountCode))),
                         writes |-> 1 :> 1])),
                 to :> Touched(database, acc, to, TRUE, 2 :> 1)),
          Extend(Extend(caller,
                   (STAKE_CONFIG_ADDR :> [info |-> None, writes |-> 1 :> 0])
                   @@ (DEAD_ADDRESS :> [info |-> None, writes |-> 1 :> 0])),
                 to :> Touched(database, acc, to, TRUE, EmptyMap)) }

EngineError == [error |-> TRUE]
Transacted(result, state) == [error |-> FALSE, result |-> result, state |-> state]
ExecutionResult(kind, output) == [kind |-> kind, output |-> output]
\* The output bytes of a call: they decode to a value of the expected type or
\* they do not.
Output(val) == [decodes |-> TRUE, val |-> val]
Undecodable == [decodes |-> FALSE, val |-> << >>]
NoOutput == Output(<< >>)
\* The results a call may end with, its output one of outputs on success.
QueryResults(outputs) ==
    {ExecutionResult(k, NoOutput) : k \in {"Revert", "Halt"}}
    \cup {ExecutionResult("Success", o) : o \in outputs}
Transact(database, acc, tx, outputs) ==
    {EngineError}
    \cup {Transacted(ExecutionResult(k, NoOutput), CallerState(database, acc, tx)) :
             k \in {"Revert", "Halt"}}
    \cup {Transacted(ExecutionResult("Success", o), st) :
             o \in outputs, st \in SuccessStates(database, acc, tx)}

is_success(r) == r.kind = "Success"

\* genesis_generate lines 183-191: the results that make the run panic.
FailedTransactionsFirstOnly(result) ==
    {i \in 1..Len(result) : i = 1 /\ ~is_success(result[i])}
FailedTransactions(result) == {i \in 1..Len(result) : ~is_success(result[i])}

(***************************************************************************)
(* execute.rs: the merge of the seeded contracts with the bundle state.    *)
(***************************************************************************)
PlainAccount(info, storage) == [info |-> info, storage |-> storage]

\* Lines 198-220: the contracts of the table, each with its code only.
SeededGenesisState(byte_code_dir) ==
    [a \in ContractAddrs |->
        PlainAccount(
            [AccountInfoDefault EXCEPT !.code =
                Some(extract_runtime_bytecode(
                        read_hex_from_file(byte_code_dir[NameOf(a)]).val))],
            EmptyMap)]

PresentStorage(account) ==
    [k \in DOMAIN account.storage |-> present_value(account.storage[k])]

\* As MergeBundle, but the storage of an entry without account info is merged
\* too.
MergeBundleAllStorage(genesis_state, bundle) ==
    [a \in DOMAIN genesis_state \cup DOMAIN bundle |->
        IF a \notin DOMAIN bundle THEN genesis_state[a]
        ELSE LET info == IF bundle[a].info.some THEN bundle[a].info.val
                         ELSE IF a \in DOMAIN genesis_state THEN genesis_state[a].info
                         ELSE AccountInfoDefault
                 old == IF a \in DOMAIN genesis_state THEN genesis_state[a].storage
                        ELSE EmptyMap
             IN  PlainAccount(info, Extend(old, PresentStorage(bundle[a])))]
\* Lines 236-253.
MergeBundle(genesis_state, bundle) ==
    LET with_info == {a \in DOMAIN bundle : bundle[a].info.some}
    IN  [a \in DOMAIN genesis_state \cup with_info |->
            IF a \notin with_info THEN genesis_state[a]
            ELSE IF a \in DOMAIN genesis_state
            THEN PlainAccount(bundle[a].info.val,
                              Extend(genesis_state[a].storage, PresentStorage(bundle[a])))
            ELSE PlainAccount(bundle[a].info.val, PresentStorage(bundle[a]))]

\* Lines 262-271.
ContractsJson(genesis_state) ==
    [a \in {x \in DOMAIN genesis_state : genesis_state[x].info.code.some} |->
        genesis_state[a].info.code.val]

Artifacts == {"bundle_state.json", "genesis_accounts.json", "genesis_contracts.json"}

\* genesis_state and contracts_json are std HashMaps, written as JSON objects
\* in the maps' iteration order.  That order depends on the keys of the
\* hasher, which the process draws at random: here one of two draws, under
\* which the keys come in ascending or in descending order.
HashSeeds == {"ascending", "descending"}
RECURSIVE Ascending(_)
Ascending(keys) ==
    IF keys = {} THEN << >>
    ELSE LET least == CHOOSE k \in keys : \A x \in keys : k <= x
         IN  <<least>> \o Ascending(keys \ {least})
IterationOrder(keys, seed) ==
    IF seed = "ascending" THEN Ascending(keys)
    ELSE [i \in 1..Cardinality(keys) |-> Ascending(keys)[Cardinality(keys) + 1 - i]]

(***************************************************************************)
(* Verification: what each handler does with the result of its query.  A   *)
(* report says whether the handler panicked, what it found and the banner  *)
(* it logged.                                                              *)
(***************************************************************************)
Report(panicked, outcome, banner, mismatches) ==
    [panicked |-> panicked, outcome |-> outcome, banner |-> banner,
     mismatches |-> mismatches]

ValidatorFields ==
    {"operator", "aptosAddress", "consensusPublicKey", "votingPower",
     "validatorNetworkAddresses", "fullnodeNetworkAddresses"}

\* The ValidatorInfo the chain returns when it stores what initialize gave it.
ExpectedValidators(param) ==
    [i \in 1..Len(param.validator_addresses) |->
        [operator |-> param.validator_addresses[i],
         aptosAddress |-> param.aptos_addresses[i],
         consensusPublicKey |-> param.consensus_public_keys[i],
         votingPower |-> param.voting_powers[i],
         validatorNetworkAddresses |-> param.validator_network_addresses[i],
         fullnodeNetworkAddresses |-> param.fullnode_network_addresses[i]]]

\* genesis.rs: validate_genesis_data_consistency
validate_genesis_data_consistency(cfg, active_validators) ==
    LET param == parse_genesis_config(cfg).val
        expected == ExpectedValidators(param)
        expected_count == Len(param.validator_addresses)
        actual_count == Len(active_validators)
        mismatches ==
            {<<i, f>> \in (1..actual_count) \X ValidatorFields :
                expected[i][f] # active_validators[i][f]}
        all_match == mismatches = {}
    IN  IF expected_count # actual_count
        THEN Report(FALSE, "count_mismatch", "none", {})
        ELSE IF all_match
        THEN Report(FALSE, "match", "success", {})
        ELSE Report(FALSE, "mismatch", "failure", mismatches)

\* post_genesis.rs: handle_execution_result; handled is what the handler of the
\* success case makes of the output.
handle_execution_result(result, handled) ==
    CASE result.kind = "Success" -> handled
      [] result.kind = "Revert" -> Report(FALSE, "reverted", "none", {})
      [] result.kind = "Halt" -> Report(FALSE, "halted", "none", {})

\* genesis.rs: print_validator_set_result
print_validator_set_result(result, cfg) ==
    LET output == result.output
        handled ==
            IF ~output.decodes THEN Report(TRUE, "decode_failed", "none", {})
            ELSE validate_genesis_data_consistency(cfg, output.val)
    IN  handle_execution_result(result, handled)

\* genesis.rs: print_current_epoch_info_result
print_current_epoch_info_result(result) ==
    LET output == result.output
        handled ==
            IF ~output.decodes THEN Report(TRUE, "decode_failed", "none", {})
            ELSE Report(FALSE, "printed", "none", {})
    IN  handle_execution_result(result, handled)

\* jwks.rs: print_jwks_result.  Each returned provider that the file also has
\* is compared with assert_eq!, which panics on the first difference.
JwksMismatches(provider_jwks_array, result_jwks) ==
    {i \in 1..Len(result_jwks) :
        \E k \in 1..Len(provider_jwks_array) :
            /\ provider_jwks_array[k].issuer = result_jwks[i].issuer
            /\ \A h \in 1..(k - 1) : provider_jwks_array[h].issuer # result_jwks[i].issuer
            /\ \/ provider_jwks_array[k].version # result_jwks[i].version
               \/ Len(provider_jwks_array[k].jwks) # Len(result_jwks[i].jwks)
               \/ \E j \in 1..Len(provider_jwks_array[k].jwks) :
                    \/ provider_jwks_array[k].jwks[j].variant # result_jwks[i].jwks[j].variant
                    \/ provider_jwks_array[k].jwks[j].data # result_jwks[i].jwks[j].data}

print_jwks_result(result, file) ==
    LET read == read_jwks_from_file(file)
        output == result.output
        handled ==
            IF ~output.decodes THEN Report(TRUE, "decode_failed", "none", {})
            ELSE IF JwksMismatches(read.val, output.val) # {}
            THEN Report(TRUE, "mismatch", "none", JwksMismatches(read.val, output.val))
            ELSE Report(FALSE, "match", "none", {})
    IN  IF ~read.ok THEN Report(TRUE, "unreadable", "none", {})
        ELSE handle_execution_result(result, handled)

\* jwks.rs: print_oidc_providers_result
\* As OidcMismatches, but the active flags are not compared.
OidcMismatchesIgnoringActive(expected_providers, result_providers) ==
    {i \in 1..Len(result_providers) :
        \E k \in 1..Len(expected_providers) :
            /\ expected_providers[k].name = result_providers[i].name
            /\ \A h \in 1..(k - 1) : expected_providers[h].name # result_providers[i].name
            /\ expected_providers[k].configUrl # result_providers[i].configUrl}
OidcMismatches(expected_providers, result_providers) ==
    {i \in 1..Len(result_providers) :
        \E k \in 1..Len(expected_providers) :
            /\ expected_providers[k].name = result_providers[i].name
            /\ \A h \in 1..(k - 1) : expected_providers[h].name # result_providers[i].name
            /\ \/ expected_providers[k].configUrl # result_providers[i].configUrl
               \/ expected_providers[k].active # result_providers[i].active}

print_oidc_providers_result(result, file) ==
    LET read == read_oidc_providers_from_file(file)
        output == result.output
        handled ==
            IF ~output.decodes THEN Report(TRUE, "decode_failed", "none", {})
            ELSE IF OidcMismatches(read.val, output.val) # {}
            THEN Report(TRUE, "mismatch", "none", OidcMismatches(read.val, output.val))
            ELSE Report(FALSE, "match", "none", {})
    IN  IF ~read.ok THEN Report(TRUE, "unreadable", "none", {})
        ELSE handle_execution_result(result, handled)

\* jwks.rs: execute_jwk_operations.  For each response the engine may give to
\* the getObservedJWKs query: the Result the function returns, or the panic it
\* ends with (todo!(), line 413).
execute_jwk_operations(database, bundle_state, outputs) ==
    LET get_tx == call_get_observed_jwks
        prestate == InitialAcc(bundle_state)
    IN  {[response |-> r,
          outcome |-> IF r.error THEN Parsed(Err("get transaction failed"))
                      ELSE IF is_success(r.result) THEN Panic("not yet implemented")
                      ELSE Parsed(Err("getObservedJWKs failed"))] :
            r \in Transact(database, prestate, get_tx, outputs)}

(***************************************************************************)
(* What the chain may answer to a query: the data the run gave it, or data *)
(* that differs from it in one place, or bytes that do not decode.         *)
(***************************************************************************)
ValidatorSetOutputs(cfg) ==
    LET e == ExpectedValidators(parse_genesis_config(cfg).val)
    IN  {Undecodable, Output(e), Output(SubSeq(e, 1, Len(e) - 1)),
         Output([e EXCEPT ![1].operator = Rep(9, 20)]),
         Output([e EXCEPT ![1].aptosAddress = Rep(9, 32)]),
         Output([e EXCEPT ![1].consensusPublicKey = <<9>>]),
         Output([e EXCEPT ![1].votingPower = U256From(9)]),
         Output([e EXCEPT ![Len(e)].validatorNetworkAddresses = <<9>>]),
         Output([e EXCEPT ![Len(e)].fullnodeNetworkAddresses = <<9>>])}

EpochInfoOutputs == {Undecodable, Output(<<1, 0, 7200>>)}

ObservedJwksOutputs(file) ==
    LET e == read_jwks_from_file(file).val
        other == [issuer |-> "other", version |-> 9, jwks |-> << >>]
        extra == [variant |-> 1, data |-> <<9>>]
    IN  {Undecodable, Output(e), Output(<< >>), Output(Append(e, other)),
         Output([e EXCEPT ![1].version = @ + 1]),
         Output([e EXCEPT ![1].jwks = Append(@, extra)]),
         Output([e EXCEPT ![1].jwks = SubSeq(@, 1, Len(@) - 1)]),
         Output([e EXCEPT ![1].jwks = [j \in 1..Len(@) |-> [@[j] EXCEPT !.data = <<9>>]]])}

ActiveProvidersOutputs(file) ==
    LET e == read_oidc_providers_from_file(file).val
        stored == [i \in 1..Len(e) |-> [e[i] EXCEPT !.active = TRUE]]
        other == [name |-> 0, configUrl |-> 100, active |-> TRUE,
                  onchain_block_number |-> 0]
    IN  {Undecodable, Output(e), Output(stored), Output(<< >>), Output(Append(e, other)),
         Output([i \in 1..Len(e) |-> [e[i] EXCEPT !.configUrl = 9]])}

(***************************************************************************)
(* The run: main.rs run_main_logic, execute.rs genesis_generate.           *)
(***************************************************************************)
VARIABLES
    pc,                   \* where the run is
    byte_code_dir,        \* input: contract name -> blob file
    config,               \* input: the genesis configuration
    jwks_file,            \* input: optional JWK file
    oidc_providers_file,  \* input: optional OIDC provider file
    db,                   \* the seeded InMemoryDB
    txs,                  \* the genesis transactions built so far
    acc,                  \* execute_revm_sequential: accounts changed so far
    results,              \* execute_revm_sequential: outcomes so far
    exec_log,             \* what the EVM was given and returned, per transact()
    bundle_state,         \* genesis_generate's bundle_state
    ret,                  \* the bundle state genesis_generate returns
    genesis_state,        \* the snapshot being built
    out,                  \* the output directory: artifact -> content
    hash_seed,            \* the keys of this process's HashMap hasher, once drawn
    written_order,        \* artifact -> the keys of its JSON object, as written
    verified,             \* the verification steps that ran, in order
    query,                \* the last verification query: what the EVM was given
    report,               \* the last verification step's report
    jwk_operations,       \* execute_jwk_operations: the query's response and the outcome
    panic                 \* the panic that ended the run, if any

vars == <<pc, byte_code_dir, config, jwks_file, oidc_providers_file, db, txs, acc,
          results, exec_log, bundle_state, ret, genesis_state, out, hash_seed,
          written_order, verified, query, report, jwk_operations, panic>>

inputs == <<byte_code_dir, config, jwks_file, oidc_providers_file>>
verification == <<verified, query, report>>
generation ==
    <<db, txs, acc, results, exec_log, bundle_state, ret, genesis_state, out,
      hash_seed, written_order>>
NoReport == Report(FALSE, "none", "none", {})
NoQuery == [tx |-> None, against |-> EmptyMap]

DefaultInput ==
    [byte_code_dir |-> GoodBlobDir, config |-> DefaultConfig,
     jwks_file |-> None, oidc_providers_file |-> None]
Inputs ==
    {[DefaultInput EXCEPT !.byte_code_dir = d] : d \in BlobDirs}
    \cup {[DefaultInput EXCEPT !.config = c] : c \in Configs}
    \cup {[DefaultInput EXCEPT !.jwks_file = j] : j \in JwksFiles}
    \cup {[DefaultInput EXCEPT !.jwks_file = j, !.oidc_providers_file = o] :
            j \in {None, Some(FileOf(JsonOf(JwksDoc2)))}, o \in OidcFiles}

Init ==
    /\ \E i \in Inputs :
        /\ byte_code_dir = i.byte_code_dir
        /\ config = i.config
        /\ jwks_file = i.jwks_file
        /\ oidc_providers_file = i.oidc_providers_file
    /\ pc = "deploy_bsc_style"
    /\ db = EmptyMap
    /\ txs = << >>
    /\ acc = EmptyMap
    /\ results = << >>
    /\ exec_log = << >>
    /\ bundle_state = EmptyMap
    /\ ret = EmptyMap
    /\ genesis_state = EmptyMap
    /\ out = [f \in Artifacts |-> None]
    /\ hash_seed = None
    /\ written_order = [f \in Artifacts |-> << >>]
    /\ verified = << >>
    /\ query = NoQuery
    /\ report = NoReport
    /\ jwk_operations = None
    /\ panic = None

PanicWith(why) ==
    /\ pc' = "panicked"
    /\ panic' = Some(why)

\* genesis_generate, line 161.
Deploy ==
    /\ pc = "deploy_bsc_style"
    /\ LET r == deploy_bsc_style(byte_code_dir)
       IN  IF r.panic
           THEN PanicWith(r.why) /\ UNCHANGED db
           ELSE pc' = "builder_new" /\ db' = r.val /\ UNCHANGED panic
    /\ UNCHANGED <<inputs, jwk_operations, verification, txs, acc, results, exec_log, bundle_state,
                   ret, genesis_state, out,
                   hash_seed, written_order>>

\* GenesisTransactionBuilder::new
BuilderNew ==
    /\ pc = "builder_new"
    /\ LET r == parse_genesis_config(config)
       IN  IF r.panic
           THEN PanicWith(r.why) /\ UNCHANGED txs
           ELSE /\ pc' = "with_jwks"
                /\ txs' = <<call_genesis_initialize(GENESIS_ADDR, r.val)>>
                /\ UNCHANGED panic
    /\ UNCHANGED <<inputs, jwk_operations, verification, db, acc, results, exec_log, bundle_state,
                   ret, genesis_state, out,
                   hash_seed, written_order>>

\* GenesisTransactionBuilder::with_jwks
WithJwks ==
    /\ pc = "with_jwks"
    /\ LET r == with_jwks(txs, jwks_file)
       IN  IF r.panic
           THEN PanicWith(r.why) /\ UNCHANGED txs
           ELSE pc' = "with_oidc_providers" /\ txs' = r.val /\ UNCHANGED panic
    /\ UNCHANGED <<inputs, jwk_operations, verification, db, acc, results, exec_log, bundle_state,
                   ret, genesis_state, out,
                   hash_seed, written_order>>

\* GenesisTransactionBuilder::with_oidc_providers and build
WithOidcProviders ==
    /\ pc = "with_oidc_providers"
    /\ LET r == with_oidc_providers(txs, oidc_providers_file)
       IN  IF r.panic
           THEN PanicWith(r.why) /\ UNCHANGED txs
           ELSE pc' = "execute" /\ txs' = r.val /\ UNCHANGED panic
    /\ UNCHANGED <<inputs, jwk_operations, verification, db, acc, results, exec_log, bundle_state,
                   ret, genesis_state, out,
                   hash_seed, written_order>>

\* execute_revm_sequential: one turn of the loop (lines 160-182); an error of
\* transact() returns Err, on which genesis_generate panics (line 174).
ExecuteTx ==
    /\ pc = "execute"
    /\ Len(results) < Len(txs)
    /\ LET i == Len(results) + 1
       IN  \E r \in Transact(db, acc, txs[i], {NoOutput}) :
            IF r.error
            THEN /\ PanicWith("Error: Database error")
                 /\ exec_log' = Append(exec_log, [tx |-> i, against |-> acc, returned |-> r])
                 /\ UNCHANGED <<acc, results>>
            ELSE /\ acc' = Commit(acc, r.state)
                 /\ results' = Append(results, r.result)
                 /\ exec_log' = Append(exec_log, [tx |-> i, against |-> acc, returned |-> r])
                 /\ UNCHANGED <<pc, panic>>
    /\ UNCHANGED <<inputs, jwk_operations, verification, db, txs, bundle_state, ret, genesis_state, out,
                   hash_seed, written_order>>

\* execute_revm_sequential returns (lines 183-185); genesis_generate lines 168-181.
ExecuteReturn ==
    /\ pc = "execute"
    /\ Len(results) = Len(txs)
    /\ bundle_state' = acc
    /\ ret' = acc
    /\ pc' = "check_results"
    /\ UNCHANGED <<inputs, jwk_operations, verification, db, txs, acc, results, exec_log, genesis_state,
                   out, panic,
                   hash_seed, written_order>>

\* genesis_generate lines 183-220.
CheckResults ==
    /\ pc = "check_results"
    /\ IF FailedTransactions(results) # {}
       THEN PanicWith("Genesis transaction failed")
            /\ UNCHANGED <<genesis_state, hash_seed>>
       ELSE /\ pc' = "write_bundle_state"
            /\ genesis_state' = SeededGenesisState(byte_code_dir)
            /\ \E seed \in HashSeeds : hash_seed' = Some(seed)
            /\ UNCHANGED panic
    /\ UNCHANGED <<inputs, jwk_operations, verification, db, txs, acc, results, exec_log, bundle_state,
                   ret, out, written_order>>

\* Lines 223-229.
WriteBundleState ==
    /\ pc = "write_bundle_state"
    /\ bundle_state' = Remove(bundle_state, SYSTEM_CALLER)
    /\ out' = [out EXCEPT !["bundle_state.json"] = Some(bundle_state')]
    /\ pc' = "merge"
    /\ UNCHANGED <<inputs, jwk_operations, verification, db, txs, acc, results, exec_log, ret,
                   genesis_state, panic,
                   hash_seed, written_order>>

\* Lines 236-253.
Merge ==
    /\ pc = "merge"
    /\ genesis_state' = MergeBundle(genesis_state, bundle_state)
    /\ pc' = "write_genesis_accounts"
    /\ UNCHANGED <<inputs, jwk_operations, verification, db, txs, acc, results, exec_log, bundle_state,
                   ret, out, panic,
                   hash_seed, written_order>>

\* Lines 255-259.
WriteGenesisAccounts ==
    /\ pc = "write_genesis_accounts"
    /\ out' = [out EXCEPT !["genesis_accounts.json"] = Some(genesis_state)]
    /\ written_order' = [written_order EXCEPT !["genesis_accounts.json"] =
                            IterationOrder(DOMAIN genesis_state, hash_seed.val)]
    /\ pc' = "write_genesis_contracts"
    /\ UNCHANGED <<inputs, jwk_operations, verification, db, txs, acc, results, exec_log,
                   bundle_state, ret, genesis_state, panic, hash_seed>>

\* Lines 262-278.
WriteGenesisContracts ==
    /\ pc = "write_genesis_contracts"
    /\ out' = [out EXCEPT !["genesis_contracts.json"] = Some(ContractsJson(genesis_state))]
    /\ written_order' = [written_order EXCEPT !["genesis_contracts.json"] =
                            IterationOrder(DOMAIN ContractsJson(genesis_state),
                                           hash_seed.val)]
    /\ pc' = "verify_validator_set"
    /\ UNCHANGED <<inputs, jwk_operations, verification, db, txs, acc, results, exec_log,
                   bundle_state, ret, genesis_state, panic, hash_seed>>

(***************************************************************************)
(* post_genesis.rs: verify_result.  Each step runs one query through       *)
(* execute_revm_sequential on the seeded database with the returned bundle *)
(* state as prestate; the state the query leaves is dropped.               *)
(***************************************************************************)
\* execute_verification: the reports the step may end with, each with the
\* query as the EVM got it.
\* As execute_verification, but the query runs on the database alone.
execute_verification_on_database(database, bundle, transaction, outputs, result_handler) ==
    LET prestate == InitialAcc(None)
    IN  {[query |-> [tx |-> Some(transaction), against |-> prestate],
          report |-> IF r.error THEN Report(FALSE, "engine_error", "none", {})
                     ELSE result_handler[r.result]] :
            r \in Transact(database, prestate, transaction, outputs)}
execute_verification(database, bundle, transaction, outputs, result_handler) ==
    LET prestate == InitialAcc(Some(bundle))
    IN  {[query |-> [tx |-> Some(transaction), against |-> prestate],
          report |-> IF r.error THEN Report(FALSE, "engine_error", "none", {})
                     ELSE result_handler[r.result]] :
            r \in Transact(database, prestate, transaction, outputs)}

\* As VerificationStep, but the step empties the output directory.
VerificationStepCleaning(name, steps, next_pc) ==
    \E s \in steps :
        /\ verified' = Append(verified, name)
        /\ query' = s.query
        /\ report' = s.report
        /\ IF s.report.panicked
           THEN PanicWith("verification panicked")
           ELSE pc' = next_pc /\ UNCHANGED panic
        /\ out' = [f \in Artifacts |-> None]
        /\ UNCHANGED <<inputs, jwk_operations, db, txs, acc, results, exec_log, bundle_state, ret,
                       genesis_state, hash_seed, written_order>>
VerificationStep(name, steps, next_pc) ==
    \E s \in steps :
        /\ verified' = Append(verified, name)
        /\ query' = s.query
        /\ report' = s.report
        /\ IF s.report.panicked
           THEN PanicWith("verification panicked")
           ELSE pc' = next_pc /\ UNCHANGED panic
        /\ UNCHANGED <<inputs, jwk_operations, generation>>

SkipStep(next_pc) ==
    /\ pc' = next_pc
    /\ UNCHANGED <<inputs, jwk_operations, generation, verification, panic>>

\* verify_result line 136.
VerifyValidatorSet ==
    /\ pc = "verify_validator_set"
    /\ LET handler == [r \in QueryResults(ValidatorSetOutputs(config)) |->
                          print_validator_set_result(r, config)]
       IN  VerificationStep("validator set",
               execute_verification(db, ret, call_get_validator_set,
                                    ValidatorSetOutputs(config), handler),
               "verify_epoch_info")

\* verify_result line 137.
VerifyEpochInfo ==
    /\ pc = "verify_epoch_info"
    /\ LET handler == [r \in QueryResults(EpochInfoOutputs) |->
                          print_current_epoch_info_result(r)]
       IN  VerificationStep("epoch info",
               execute_verification(db, ret, call_get_current_epoch_info,
                                    EpochInfoOutputs, handler),
               "verify_jwks")

\* verify_result lines 138-140.
VerifyJwks ==
    /\ pc = "verify_jwks"
    /\ IF jwks_file.some
       THEN LET handler == [r \in QueryResults(ObservedJwksOutputs(jwks_file.val)) |->
                               print_jwks_result(r, jwks_file.val)]
            IN  VerificationStep("jwks",
                    execute_verification(db, ret, call_get_observed_jwks,
                                         ObservedJwksOutputs(jwks_file.val), handler),
                    "verify_oidc_providers")
       ELSE SkipStep("verify_oidc_providers")

\* verify_result lines 141-143; run_main_logic lines 171-172.
VerifyOidcProviders ==
    /\ pc = "verify_oidc_providers"
    /\ IF oidc_providers_file.some
       THEN LET handler ==
                    [r \in QueryResults(ActiveProvidersOutputs(oidc_providers_file.val)) |->
                        print_oidc_providers_result(r, oidc_providers_file.val)]
            IN  VerificationStep("oidc providers",
                    execute_verification(db, ret, call_get_active_providers,
                                         ActiveProvidersOutputs(oidc_providers_file.val),
                                         handler),
                    "done")
       ELSE SkipStep("done")

Next ==
    \/ Deploy
    \/ BuilderNew
    \/ WithJwks
    \/ WithOidcProviders
    \/ ExecuteTx
    \/ ExecuteReturn
    \/ CheckResults
    \/ WriteBundleState
    \/ Merge
    \/ WriteGenesisAccounts
    \/ WriteGenesisContracts
    \/ VerifyValidatorSet
    \/ VerifyEpochInfo
    \/ VerifyJwks
    \/ VerifyOidcProviders

Spec == Init /\ [][Next]_vars

(***************************************************************************)
(* jwks.rs: execute_jwk_operations is public and has no caller in the      *)
(* crate.  Here it is run, in place of verify_result, on the database and  *)
(* the bundle state that genesis_generate returns, or on the database      *)
(* alone.                                                                  *)
(***************************************************************************)
JwkOperationsOutputs ==
    IF jwks_file.some THEN ObservedJwksOutputs(jwks_file.val)
    ELSE {Undecodable, Output(<< >>)}

ExecuteJwkOperations ==
    /\ pc = "verify_validator_set"
    /\ \E bundle \in {None, Some(ret)} :
        \E x \in execute_jwk_operations(db, bundle, JwkOperationsOutputs) :
            /\ jwk_operations' = Some(x)
            /\ IF x.outcome.panic
               THEN PanicWith(x.outcome.why)
               ELSE pc' = "done" /\ UNCHANGED panic
    /\ UNCHANGED <<inputs, generation, verification>>

JwkOperationsNext ==
    \/ Deploy
    \/ BuilderNew
    \/ WithJwks
    \/ WithOidcProviders
    \/ ExecuteTx
    \/ ExecuteReturn
    \/ CheckResults
    \/ WriteBundleState
    \/ Merge
    \/ WriteGenesisAccounts
    \/ WriteGenesisContracts
    \/ ExecuteJwkOperations

JwkOperationsSpec == Init /\ [][JwkOperationsNext]_vars

(***************************************************************************)
(* Properties.                                                             *)
(***************************************************************************)
NothingWritten == \A f \in Artifacts : ~out[f].some
BeforeBuild == {"deploy_bsc_style", "builder_new", "with_jwks", "with_oidc_providers"}

\* C1: once a genesis transaction has ended Reverted or Halted, the run never
\* gets past the check of the results (it is executing the rest of the list,
\* about to check, or has panicked) and no artifact has been written.
C1_FailedTransactionWritesNothing ==
    (\E i \in 1..Len(results) : results[i].kind \in {"Revert", "Halt"})
        => /\ pc \in {"execute", "check_results", "panicked"}
           /\ NothingWritten

\* C1 witness: a run whose second transaction (the JWK load) halted after
\* initialize succeeded, and which panicked.
C1_Witness ==
    /\ pc = "panicked"
    /\ Len(results) >= 2
    /\ results[1].kind = "Success"
    /\ results[2].kind = "Halt"
    /\ txs[2].data.fn = "upsertObservedJWKs"
    /\ panic = Some("Genesis transaction failed")

\* C3: the privileged caller is never a key of the snapshot, nor of the
\* bundle_state.json and genesis_accounts.json artifacts.
C3_SystemCallerNeverInSnapshot ==
    /\ SYSTEM_CALLER \notin DOMAIN genesis_state
    /\ out["bundle_state.json"].some
           => SYSTEM_CALLER \notin DOMAIN out["bundle_state.json"].val
    /\ out["genesis_accounts.json"].some
           => SYSTEM_CALLER \notin DOMAIN out["genesis_accounts.json"].val

\* C3 witness: the artifacts are written after an execution whose returned
\* diff has the privileged caller with an account info.
C3_Witness ==
    /\ out["bundle_state.json"].some
    /\ out["genesis_accounts.json"].some
    /\ SYSTEM_CALLER \in DOMAIN ret
    /\ ret[SYSTEM_CALLER].info.some

FinalSnapshotWritten == out["genesis_accounts.json"].some
FinalSnapshot == out["genesis_accounts.json"].val

\* C2: once the final snapshot is written, every address of the contract
\* table is a key of it and its account has code that is not empty.
C2_EveryContractHasCode ==
    FinalSnapshotWritten =>
        \A i \in 1..Len(CONTRACTS) :
            /\ CONTRACTS[i][2] \in DOMAIN FinalSnapshot
            /\ FinalSnapshot[CONTRACTS[i][2]].info.code.some
            /\ FinalSnapshot[CONTRACTS[i][2]].info.code.val # << >>

\* C4: once the final snapshot is written, every address seeded with code
\* whose entry of the diff has an account info and a storage entry (k, v) has,
\* in the snapshot, the seeded code and storage[k] = v.
C4_MergeKeepsSeededCode ==
    FinalSnapshotWritten =>
        \A a \in DOMAIN db \cap DOMAIN bundle_state :
            (db[a].code.some /\ bundle_state[a].info.some) =>
                \A k \in DOMAIN bundle_state[a].storage :
                    /\ FinalSnapshot[a].info.code = db[a].code
                    /\ k \in DOMAIN FinalSnapshot[a].storage
                    /\ FinalSnapshot[a].storage[k] =
                           bundle_state[a].storage[k].present_value

\* The contracts that hold native value (execute.rs line 37).
ValueHolding == {"JWKManager", "ValidatorManager", "Genesis"}
PreFundedAmount == U256Mul(U256From(1000000), U256Pow(U256From(10), 18))

\* C5: once the final snapshot is written, every contract of the table that
\* holds native value has the pre-funded balance in it and every other
\* contract of the table has balance zero.
C5_SnapshotBalances ==
    FinalSnapshotWritten =>
        \A i \in 1..Len(CONTRACTS) :
            FinalSnapshot[CONTRACTS[i][2]].info.balance =
                IF CONTRACTS[i][1] \in ValueHolding THEN PreFundedAmount ELSE U256Zero

\* The documents the run was given, as the files hold them.
JwkFileGiven == jwks_file.some
OidcDoc ==
    IF oidc_providers_file.some THEN oidc_providers_file.val.content.doc ELSE << >>

\* C6: once the list is built it is: initialize to the Genesis contract, then
\* one upsertObservedJWKs carrying every issuer of the JWK file if there is a
\* JWK file, then one upsertOIDCProvider per entry of the OIDC file, in the
\* file's order, and nothing else.
C6_TransactionListOrder ==
    pc \notin BeforeBuild \cup {"panicked"} =>
        LET j == IF JwkFileGiven THEN 1 ELSE 0
        IN  /\ Len(txs) = 1 + j + Len(OidcDoc)
            /\ txs[1].data.fn = "initialize"
            /\ txs[1].transact_to.to = GENESIS_ADDR
            /\ JwkFileGiven =>
                  /\ txs[2].data.fn = "upsertObservedJWKs"
                  /\ Len(txs[2].data.providerJWKsArray) = Len(jwks_file.val.content.doc)
                  /\ \A i \in 1..Len(jwks_file.val.content.doc) :
                        txs[2].data.providerJWKsArray[i].issuer =
                            jwks_file.val.content.doc[i].issuer
            /\ \A k \in 1..Len(OidcDoc) :
                  /\ txs[1 + j + k].data.fn = "upsertOIDCProvider"
                  /\ txs[1 + j + k].data.name = OidcDoc[k].name
                  /\ txs[1 + j + k].data.configUrl = OidcDoc[k].configUrl
                  /\ txs[1 + j + k].transact_to.to = JWK_MANAGER_ADDR

\* C6 witness: a list built from a JWK file with two issuers and an OIDC file
\* with two different providers.
C6_Witness ==
    /\ pc = "execute"
    /\ JwkFileGiven
    /\ Len(txs) = 4
    /\ Len(txs[2].data.providerJWKsArray) = 2
    /\ txs[3].data.name # txs[4].data.name

\* What transact() number j returned as changed accounts.
ChangedBy(j) == exec_log[j].returned.state
\* Transaction k ran on a view that has, for every account and slot changed
\* by an earlier transaction, the latest earlier change, and the seeded
\* account where no earlier transaction changed it.
SeesCommitted(k) ==
    LET view == exec_log[k].against
    IN  /\ \A j \in 1..(k - 1) : \A a \in DOMAIN ChangedBy(j) :
            /\ (\A h \in (j + 1)..(k - 1) : a \notin DOMAIN ChangedBy(h))
                   => ViewInfo(db, view, a) = ChangedBy(j)[a].info
            /\ \A slot \in DOMAIN ChangedBy(j)[a].writes :
                   (\A h \in (j + 1)..(k - 1) :
                        ~(a \in DOMAIN ChangedBy(h)
                          /\ slot \in DOMAIN ChangedBy(h)[a].writes))
                   => ViewSlot(view, a, slot) = ChangedBy(j)[a].writes[slot]
        /\ \A a \in DOMAIN db :
               (\A j \in 1..(k - 1) : a \notin DOMAIN ChangedBy(j))
                   => ViewInfo(db, view, a) = Some(db[a])

\* C7: the transactions are given to the EVM in list order, one run each;
\* transaction k runs on a state that has the changes committed by the
\* transactions before it; the outcomes are those the EVM returned, in the
\* same order, and the call returns one outcome per transaction.  A
\* verification query runs on a state that has the returned diff.
C7_SequentialExecution ==
    /\ \A k \in 1..Len(exec_log) : exec_log[k].tx = k /\ SeesCommitted(k)
    /\ Len(exec_log) <= Len(txs)
    /\ Len(results) <= Len(exec_log)
    /\ \A i \in 1..Len(results) : results[i] = exec_log[i].returned.result
    /\ pc \notin BeforeBuild \cup {"execute", "panicked"} => Len(results) = Len(txs)
    /\ query.tx.some =>
          \A a \in DOMAIN ret :
              /\ ViewInfo(db, query.against, a) = ret[a].info
              /\ \A slot \in DOMAIN ret[a].storage :
                     ViewSlot(query.against, a, slot) = ret[a].storage[slot].present_value

\* C7 witness: a call with three transactions has returned; the third ran on
\* a state with the slot the second wrote and the account the first touched.
C7_Witness ==
    /\ pc = "check_results"
    /\ Len(results) = 3
    /\ JWK_MANAGER_ADDR \in DOMAIN ChangedBy(2)
    /\ 1 \in DOMAIN ChangedBy(2)[JWK_MANAGER_ADDR].writes
    /\ ViewSlot(exec_log[3].against, JWK_MANAGER_ADDR, 1) = 1
    /\ GENESIS_ADDR \in DOMAIN exec_log[3].against

\* Validator i of the configuration has an identity value whose low-order 20
\* bytes are not its address.
IdentityMismatch(i) ==
    \/ i > Len(config.aptos_addresses)
    \/ LET word == HexDecode(config.aptos_addresses[i])
           address == HexDecode(config.validator_addresses[i])
       IN  \/ ~word.ok
           \/ ~address.ok
           \/ Len(word.bytes) # 32
           \/ SubSeq(word.bytes, 13, 32) # address.bytes

\* C8: when any validator's address differs from the low-order 20 bytes of
\* its identity value, the run never gets past the building of initialize: no
\* transaction is built or executed and no artifact is written.
C8_MismatchAbortsBeforeBuild ==
    (\E i \in 1..Len(config.validator_addresses) : IdentityMismatch(i))
        => /\ pc \in {"deploy_bsc_style", "builder_new", "panicked"}
           /\ txs = << >>
           /\ exec_log = << >>
           /\ NothingWritten

\* C8 witness: a configuration whose first validator matches and whose second
\* does not; the run panicked on it after seeding.
C8_Witness ==
    /\ pc = "panicked"
    /\ panic = Some("Validator address mismatch")
    /\ Len(config.validator_addresses) = 2
    /\ Len(config.aptos_addresses) = 2
    /\ ~IdentityMismatch(1)
    /\ IdentityMismatch(2)
    /\ Len(HexDecode(config.aptos_addresses[2]).bytes) = 32
    /\ db # EmptyMap

\* C9: a verification query sees, for every address of the final snapshot,
\* the account info and the storage that the final snapshot has.
C9_VerificationSeesSnapshot ==
    (query.tx.some /\ FinalSnapshotWritten) =>
        \A a \in DOMAIN FinalSnapshot :
            /\ ViewInfo(db, query.against, a) = Some(FinalSnapshot[a].info)
            /\ \A k \in DOMAIN FinalSnapshot[a].storage :
                   ViewSlot(query.against, a, k) = FinalSnapshot[a].storage[k]

\* C10: a verification step that found a field mismatch does not end the
\* run: the run goes on to the next step.
C10_MismatchIsNotFatal ==
    report.outcome = "mismatch" => pc # "panicked"

\* C12: the voting power of validator i in the initialize call, and the one
\* verification expects for it, are the configured power times 10^18 as an
\* integer.
C12_VotingPowerScaled ==
    txs # << >> =>
        \A i \in 1..Len(config.voting_powers) :
            LET exact == BigMul(DecimalValue(config.voting_powers[i]),
                                DecimalValue(<<1>> \o Rep(0, 18)))
            IN  /\ txs[1].data.votingPowers[i] = exact
                /\ ExpectedValidators(parse_genesis_config(config).val)[i].votingPower
                       = exact

\* C11: the genesis_accounts.json and genesis_contracts.json a run wrote are
\* what any run on the same inputs writes: the same accounts and contracts
\* in the same order, whatever the hasher keys the process drew.
C11_ArtifactsIdentical ==
    (out["genesis_accounts.json"].some /\ out["genesis_contracts.json"].some) =>
        \A seed \in HashSeeds :
            /\ written_order["genesis_accounts.json"] =
                   IterationOrder(DOMAIN out["genesis_accounts.json"].val, seed)
            /\ written_order["genesis_contracts.json"] =
                   IterationOrder(DOMAIN out["genesis_contracts.json"].val, seed)

\* The returned JWK set is the document: the same issuers, and for each
\* returned issuer the document's version and entries, in the document's order.
ExactJwks(provider_jwks_array, result_jwks) ==
    /\ {result_jwks[i].issuer : i \in 1..Len(result_jwks)} =
           {provider_jwks_array[k].issuer : k \in 1..Len(provider_jwks_array)}
    /\ Len(result_jwks) = Len(provider_jwks_array)
    /\ \A i \in 1..Len(result_jwks) : \E k \in 1..Len(provider_jwks_array) :
           /\ provider_jwks_array[k].issuer = result_jwks[i].issuer
           /\ provider_jwks_array[k].version = result_jwks[i].version
           /\ provider_jwks_array[k].jwks = result_jwks[i].jwks

\* C13: whatever set the getObservedJWKs query returns, JWK verification
\* passes on it only if the set is the loaded document: no issuer missing,
\* none extra, each with the document's version and entries.
C13_JwkVerificationExact ==
    (pc = "verify_jwks" /\ jwks_file.some) =>
        \A o \in ObservedJwksOutputs(jwks_file.val) :
            print_jwks_result(ExecutionResult("Success", o), jwks_file.val).outcome
                    = "match"
                => /\ o.decodes
                   /\ ExactJwks(read_jwks_from_file(jwks_file.val).val, o.val)

\* C14: when the bytecode file of a contract of the table cannot be read, the
\* run never gets past seeding: nothing is seeded, no transaction is built or
\* executed and no artifact is written.
C14_MissingBytecodeAbortsSeeding ==
    (\E n \in ContractNames : ~byte_code_dir[n].exists)
        => /\ pc \in {"deploy_bsc_style", "panicked"}
           /\ db = EmptyMap
           /\ txs = << >>
           /\ exec_log = << >>
           /\ NothingWritten

\* C14 witness: the run panicked on the missing file of the last contract of
\* the table, the files of the contracts before it being there.
C14_Witness ==
    /\ pc = "panicked"
    /\ panic = Some("Failed to open")
    /\ ~byte_code_dir["HashOracle"].exists
    /\ \A n \in ContractNames \ {"HashOracle"} : byte_code_dir[n].exists

\* C15: when the bytecode blob of a contract of the table is no hex, the run
\* never gets past seeding: nothing is seeded, executed or written.
C15_UndecodableBytecodeAborts ==
    (\E n \in ContractNames :
        byte_code_dir[n].exists /\ ~HexDecode(byte_code_dir[n].content).ok)
        => /\ pc \in {"deploy_bsc_style", "panicked"}
           /\ db = EmptyMap
           /\ exec_log = << >>
           /\ NothingWritten

\* C16: in the seeded state the JWK manager, the validator manager and the
\* Genesis contract have balance 1,000,000 * 10^18 and every other contract
\* of the table has balance zero.
C16_SeededBalances ==
    db # EmptyMap =>
        \A i \in 1..Len(CONTRACTS) :
            db[CONTRACTS[i][2]].balance =
                IF CONTRACTS[i][1] \in ValueHolding THEN PreFundedAmount ELSE U256Zero

NoTransactionCalls(fn) == \A i \in 1..Len(txs) : txs[i].data.fn # fn
ListBuilt == pc \notin BeforeBuild \cup {"panicked"}

\* C17: an optional file that is not supplied is skipped: with no JWK file the
\* builder adds no upsertObservedJWKs transaction and never fails on it, with no
\* OIDC file it adds no upsertOIDCProvider transaction and never fails on it,
\* the other transactions keep their places, and with neither file the list is
\* exactly the initialize transaction.
C17_MissingOptionalInputSkipped ==
    /\ ~jwks_file.some =>
          /\ NoTransactionCalls("upsertObservedJWKs")
          /\ panic # Some("Failed to upsert observed JWKs")
          /\ with_jwks(txs, jwks_file) = Parsed(txs)
          /\ ListBuilt =>
                /\ Len(txs) = 1 + Len(OidcDoc)
                /\ \A k \in 1..Len(OidcDoc) :
                      txs[1 + k] = call_upsert_oidc_provider(OidcDoc[k].name,
                                                             OidcDoc[k].configUrl)
    /\ ~oidc_providers_file.some =>
          /\ NoTransactionCalls("upsertOIDCProvider")
          /\ panic # Some("Failed to upsert OIDC providers")
          /\ with_oidc_providers(txs, oidc_providers_file) = Parsed(txs)
          /\ ListBuilt =>
                /\ Len(txs) = 1 + (IF jwks_file.some THEN 1 ELSE 0)
                /\ jwks_file.some => txs[2] = upsert_observed_jwks(jwks_file.val).val
    /\ (~jwks_file.some /\ ~oidc_providers_file.some /\ ListBuilt) =>
          txs = << call_genesis_initialize(GENESIS_ADDR, parse_genesis_config(config).val) >>

\* C17 witness: a list built without a JWK file and with an OIDC file of two
\* providers: initialize followed directly by the two provider transactions.
C17_Witness ==
    /\ pc = "execute"
    /\ ~jwks_file.some
    /\ oidc_providers_file.some
    /\ Len(txs) = 3
    /\ txs[2].data.fn = "upsertOIDCProvider"

JwksFileUnreadable == jwks_file.some /\ ~jwks_file.val.exists
JwksFileBadHex ==
    /\ jwks_file.some
    /\ jwks_file.val.exists
    /\ jwks_file.val.content.parses
    /\ \E i \in 1..Len(jwks_file.val.content.doc) :
          \E j \in 1..Len(jwks_file.val.content.doc[i].jwks) :
              ~HexDecode(jwks_file.val.content.doc[i].jwks[j].data).ok
OidcFileUnreadable == oidc_providers_file.some /\ ~oidc_providers_file.val.exists

\* C18: a supplied file that cannot be read is an error and no transaction: an
\* unreadable JWK file makes upsert_observed_jwks fail with 'Failed to read
\* JWKS file', one entry whose data is no hex fails the whole JWK load, an
\* unreadable OIDC file makes upsert_oidc_providers fail with 'Failed to read
\* OIDC provider file', and in each case the run stops before any transaction
\* is executed.
C18_UnreadableOptionalInputFails ==
    /\ JwksFileUnreadable =>
          upsert_observed_jwks(jwks_file.val) = Err("Failed to read JWKS file")
    /\ JwksFileBadHex =>
          /\ ~read_jwks_from_file(jwks_file.val).ok
          /\ ~upsert_observed_jwks(jwks_file.val).ok
    /\ OidcFileUnreadable =>
          upsert_oidc_providers(oidc_providers_file.val)
              = Err("Failed to read OIDC provider file")
    /\ (JwksFileUnreadable \/ JwksFileBadHex) =>
          /\ NoTransactionCalls("upsertObservedJWKs")
          /\ pc \in {"deploy_bsc_style", "builder_new", "with_jwks", "panicked"}
    /\ OidcFileUnreadable => NoTransactionCalls("upsertOIDCProvider")
    /\ (JwksFileUnreadable \/ JwksFileBadHex \/ OidcFileUnreadable) =>
          /\ pc \in BeforeBuild \cup {"panicked"}
          /\ exec_log = << >>
          /\ results = << >>
          /\ NothingWritten

\* C18 witness: the builder has stopped on a JWK file whose second entry is no
\* hex, with only the initialize transaction in the list.
C18_Witness ==
    /\ pc = "panicked"
    /\ JwksFileBadHex
    /\ panic = Some("Failed to upsert observed JWKs")
    /\ Len(txs) = 1

VerificationPcs ==
    {"verify_validator_set", "verify_epoch_info", "verify_jwks", "verify_oidc_providers"}
AllWritten == \A f \in Artifacts : out[f].some

VerificationStepKeepsArtifacts ==
    pc \in VerificationPcs =>
        /\ AllWritten
        /\ out' = out
        /\ written_order' = written_order

\* C19: every verification step is taken with the three artifacts written and
\* leaves them as they are, whatever its outcome.
C19_VerificationKeepsArtifacts ==
    [][VerificationStepKeepsArtifacts]_vars

\* C19 witness: a verification query has reverted and the three artifacts are
\* in the output directory.
C19_Witness ==
    /\ verified # << >>
    /\ report.outcome = "reverted"
    /\ AllWritten

\* C20: once a genesis transaction has ended as reverted or halted, no later
\* transaction of the list is executed.
C20_StopsAtFirstFailure ==
    \A i \in 1..Len(results) :
        results[i].kind # "Success" => Len(exec_log) = i

LastStep == IF verified = << >> THEN "none" ELSE verified[Len(verified)]

\* C21: a validator-set verification whose output decodes ends with one final
\* banner: the success banner if and only if the returned validators are, in
\* number and field by field, the configured ones, and the failure banner in
\* every other case, a different count included.
C21_ValidatorSetFinalBanner ==
    verified # << >> =>
        \A o \in ValidatorSetOutputs(config) :
            o.decodes =>
                LET r == validate_genesis_data_consistency(config, o.val)
                    same == o.val = ExpectedValidators(parse_genesis_config(config).val)
                IN  /\ r.banner \in {"success", "failure"}
                    /\ r.banner = "success" <=> same

\* C23: a fault of the engine ends the run at once: in generation nothing
\* after the faulting transaction is executed, no result is used and no
\* artifact is written; in verification no later query is made.
C23_EngineFaultAborts ==
    /\ (exec_log # << >> /\ exec_log[Len(exec_log)].returned.error) =>
          /\ pc = "panicked"
          /\ panic = Some("Error: Database error")
          /\ NothingWritten
    /\ \A i \in 1..Len(exec_log) : exec_log[i].returned.error => i = Len(exec_log)
    /\ report.outcome = "engine_error" => pc = "panicked"

\* C24: a run that completes has made the four queries, in the order
\* validator set, epoch info, observed JWKs, active OIDC providers.
C24_FourQueriesInOrder ==
    pc = "done" => verified = <<"validator set", "epoch info", "jwks", "oidc providers">>

Merged == out["bundle_state.json"].some /\ pc # "merge"
\* The addresses of the diff the merge goes through, with an account info or
\* without one.
DiffWithInfo == {a \in DOMAIN ret \ {SYSTEM_CALLER} : ret[a].info.some}
DiffWithoutInfo == {a \in DOMAIN ret \ {SYSTEM_CALLER} : ~ret[a].info.some}

\* C22: after the merge, every address of the diff other than the privileged
\* caller that has an account info has, in the snapshot, the diff's balance
\* and nonce and every slot of the diff at its present value; an address that
\* was not seeded is there with exactly the diff's info and storage.
C22_MergeTakesDiff ==
    Merged =>
        \A a \in DiffWithInfo :
            /\ a \in DOMAIN genesis_state
            /\ genesis_state[a].info.balance = ret[a].info.val.balance
            /\ genesis_state[a].info.nonce = ret[a].info.val.nonce
            /\ \A k \in DOMAIN ret[a].storage :
                  /\ k \in DOMAIN genesis_state[a].storage
                  /\ genesis_state[a].storage[k] = ret[a].storage[k].present_value
            /\ a \notin ContractAddrs =>
                  genesis_state[a] =
                      PlainAccount(ret[a].info.val,
                                   [k \in DOMAIN ret[a].storage |->
                                       ret[a].storage[k].present_value])

\* C22 witness: merged a diff in which the Genesis contract has a written
\* slot and an account that was not seeded has an info and a slot.
C22_Witness ==
    /\ Merged
    /\ GENESIS_ADDR \in DiffWithInfo
    /\ DOMAIN ret[GENESIS_ADDR].storage # {}
    /\ DEAD_ADDRESS \in DiffWithInfo
    /\ DOMAIN ret[DEAD_ADDRESS].storage # {}

\* C27: after the merge, an address of the diff that has no account info is in
\* the snapshot as it was seeded, code and empty storage, or not at all.
C27_EntryWithoutInfoIgnored ==
    Merged =>
        \A a \in DiffWithoutInfo :
            IF a \in ContractAddrs
            THEN /\ a \in DOMAIN genesis_state
                 /\ genesis_state[a] = SeededGenesisState(byte_code_dir)[a]
            ELSE a \notin DOMAIN genesis_state

\* C27 witness: merged a diff that has, without account info and with a
\* storage entry, a seeded contract and an address that was not seeded.
C27_Witness ==
    /\ Merged
    /\ STAKE_CONFIG_ADDR \in DiffWithoutInfo
    /\ DOMAIN ret[STAKE_CONFIG_ADDR].storage # {}
    /\ DEAD_ADDRESS \in DiffWithoutInfo
    /\ DOMAIN ret[DEAD_ADDRESS].storage # {}

Seeded == db # EmptyMap

\* C25: the seeded state is the privileged caller, with balance 10^18, nonce 1
\* and no code, and one account per entry of the contract table; the code of
\* each contract is the bytes its blob decodes to, unchanged, whether the blob
\* looks like constructor bytecode or like runtime bytecode.
C25_SeededState ==
    Seeded =>
        /\ DOMAIN db = {SYSTEM_CALLER} \cup {CONTRACTS[i][2] : i \in 1..Len(CONTRACTS)}
        /\ Cardinality(DOMAIN db) = 1 + Len(CONTRACTS)
        /\ db[SYSTEM_CALLER] =
              AccountInfo(DecimalValue(<<1>> \o Rep(0, 18)), 1, None)
        /\ \A i \in 1..Len(CONTRACTS) :
              LET blob == byte_code_dir[CONTRACTS[i][1]].content
              IN  HexDecode(blob).ok =>
                      db[CONTRACTS[i][2]].code = Some(HexDecode(blob).bytes)

\* C25 witness: seeded from a directory in which the Genesis blob looks like
\* constructor bytecode, 101 bytes that start with 0x60.
C25_Witness ==
    /\ Seeded
    /\ byte_code_dir["Genesis"] = FileOf(ConstructorBlob)
    /\ Len(db[GENESIS_ADDR].code.val) = 101
    /\ db[GENESIS_ADDR].code.val[1] = 96

\* The contract each function of the system is called on.
TargetOf(fn) ==
    CASE fn = "initialize" -> GENESIS_ADDR
      [] fn \in {"upsertObservedJWKs", "upsertOIDCProvider", "getObservedJWKs",
                 "getActiveProviders"} -> JWK_MANAGER_ADDR
      [] fn = "getValidatorSet" -> VALIDATOR_MANAGER_ADDR
      [] fn = "getCurrentEpochInfo" -> EPOCH_MANAGER_ADDR
      [] OTHER -> SYSTEM_CALLER
IsSystemCall(tx) ==
    /\ tx.caller = SYSTEM_CALLER
    /\ tx.value = << >>
    /\ tx.gas_price = << >>
    /\ tx.transact_to.kind = "Call"
    /\ tx.transact_to.to = TargetOf(tx.data.fn)
    /\ \E i \in 1..Len(CONTRACTS) : CONTRACTS[i][2] = tx.transact_to.to

\* C26: every genesis transaction and every verification query is sent by the
\* privileged caller with value zero and gas price zero, and is a call to the
\* contract of the table that its function belongs to.
C26_SystemTransactions ==
    /\ \A i \in 1..Len(txs) : IsSystemCall(txs[i])
    /\ \A i \in 1..Len(exec_log) : IsSystemCall(txs[exec_log[i].tx])
    /\ query.tx.some => IsSystemCall(query.tx.val)

\* C26 witness: a completed run that built the three kinds of genesis
\* transaction and made the OIDC provider query last.
C26_Witness ==
    /\ pc = "done"
    /\ Len(txs) >= 3
    /\ txs[2].data.fn = "upsertObservedJWKs"
    /\ txs[3].data.fn = "upsertOIDCProvider"
    /\ query.tx.some
    /\ query.tx.val.data.fn = "getActiveProviders"

VerificationStepIsolated ==
    pc \in VerificationPcs =>
        /\ db' = db
        /\ ret' = ret
        /\ bundle_state' = bundle_state
        /\ genesis_state' = genesis_state
        /\ verified' # verified =>
              /\ query'.against = ret
              /\ \A a \in DOMAIN db \ DOMAIN ret :
                    ViewInfo(db, query'.against, a) = Some(db[a])

\* C28: every verification query runs on the seeded state overlaid with the
\* diff generation returned, whatever queries ran before it, and no
\* verification step changes the seeded state, the diff or the snapshot.
C28_QueriesIndependent ==
    [][VerificationStepIsolated]_vars

\* C28 witness: the epoch query has succeeded as the second query of the run,
\* on the diff generation returned.
C28_Witness ==
    /\ Len(verified) >= 2
    /\ report.outcome = "printed"
    /\ query.against = ret
    /\ ret # EmptyMap

OidcFileReadable ==
    /\ oidc_providers_file.some
    /\ oidc_providers_file.val.exists
    /\ oidc_providers_file.val.content.parses
\* The documents that differ from doc in the active flags only.
FlagVariants(doc) ==
    {[i \in 1..Len(doc) |-> [doc[i] EXCEPT !.active = flags[i]]] :
        flags \in [1..Len(doc) -> BOOLEAN]}

\* C29: the OIDC load transactions are the same for every document that
\* differs from the given one in the active flags only, each carrying the
\* name and the config URL of its entry and nothing else, while the OIDC
\* verification passes only if every returned provider that the document
\* names has the active flag of the document.
C29_ActiveFlagOnlyVerified ==
    OidcFileReadable =>
        /\ \A d \in FlagVariants(OidcDoc) :
              upsert_oidc_providers(FileOf(JsonOf(d)))
                  = upsert_oidc_providers(oidc_providers_file.val)
        /\ ListBuilt =>
              \A k \in 1..Len(OidcDoc) :
                  txs[Len(txs) - Len(OidcDoc) + k].data =
                      [fn |-> "upsertOIDCProvider", name |-> OidcDoc[k].name,
                       configUrl |-> OidcDoc[k].configUrl]
        /\ \A o \in ActiveProvidersOutputs(oidc_providers_file.val) :
              (/\ o.decodes
               /\ ~print_oidc_providers_result(ExecutionResult("Success", o),
                                               oidc_providers_file.val).panicked) =>
                  \A i \in 1..Len(o.val) : \A k \in 1..Len(OidcDoc) :
                      (/\ OidcDoc[k].name = o.val[i].name
                       /\ \A h \in 1..(k - 1) : OidcDoc[h].name # o.val[i].name) =>
                          o.val[i].active = OidcDoc[k].active

\* C29 witness: the OIDC verification has passed for a document that has an
\* active and an inactive provider, after their two load transactions.
C29_Witness ==
    /\ pc = "done"
    /\ LastStep = "oidc providers"
    /\ report.outcome = "match"
    /\ Len(OidcDoc) = 2
    /\ OidcDoc[1].active # OidcDoc[2].active
    /\ txs[Len(txs)].data.fn = "upsertOIDCProvider"

\* C30: execute_jwk_operations returns to its caller whatever the query does:
\* Err when the engine fails or the query does not succeed, Ok when the query
\* succeeds, and the process goes on.
C30_JwkOperationsReturns ==
    jwk_operations.some =>
        LET response == jwk_operations.val.response
            outcome == jwk_operations.val.outcome
        IN  /\ ~outcome.panic
            /\ pc # "panicked"
            /\ outcome.val.ok <=> (~response.error /\ is_success(response.result))


====
